---- MODULE Spec2Model ----
(***************************************************************************)
(* Model of src/cleaner.py: the XLSForm schema resolver                    *)
(* (get_pii_columns_from_xlsform) and the dataset masker (mask_excel_file).*)
(*                                                                         *)
(* Strings the code inspects character by character (paths, extensions,    *)
(* schema header names, `dataset` tags) are sequences of one-character     *)
(* strings, so that str.lower, os.path.splitext and concatenation are      *)
(* computed and not assumed.  Strings the code only compares for equality  *)
(* (dataset column names, sheet names, cell texts) are plain strings.      *)
(*                                                                         *)
(* A workbook cell is either blank or holds a text; reading a sheet turns  *)
(* a blank cell into the missing-value sentinel NaN and writing turns NaN  *)
(* back into a blank cell.  "Empty" below always means "read as missing".  *)
(***************************************************************************)
EXTENDS Integers, Sequences, FiniteSets, TLC

\* ------------------------------------------------------------------ bounds
MaxSheets == 2      \* sheets per input workbook
MaxRows == 2        \* data rows per sheet
MaxRuns == 2        \* successive runs of the masker on the same dataset
MaxRecords == 3     \* data rows of the schema worksheet

\* ------------------------------------------------------- character strings
UpperAlpha == <<"A","B","C","D","E","F","G","H","I","J","K","L","M",
                "N","O","P","Q","R","S","T","U","V","W","X","Y","Z">>
LowerAlpha == <<"a","b","c","d","e","f","g","h","i","j","k","l","m",
                "n","o","p","q","r","s","t","u","v","w","x","y","z">>

\* str.lower on one character
LowerChar(c) ==
  IF \E i \in DOMAIN UpperAlpha : UpperAlpha[i] = c
  THEN LowerAlpha[CHOOSE i \in DOMAIN UpperAlpha : UpperAlpha[i] = c]
  ELSE c

\* str.lower
Lower(s) == [i \in DOMAIN s |-> LowerChar(s[i])]

\* str.rfind, 1-based; 0 when the character does not occur
RFind(p, ch) ==
  IF \E i \in DOMAIN p : p[i] = ch
  THEN CHOOSE i \in DOMAIN p : p[i] = ch /\ \A j \in DOMAIN p : p[j] = ch => j <= i
  ELSE 0

\* os.path.splitext: split at the last dot of the last path component,
\* unless that component consists of leading dots only up to that dot
splitext(p) ==
  LET sep == RFind(p, "/")
      dot == RFind(p, ".")
  IN IF dot > sep /\ \E i \in (sep + 1)..(dot - 1) : p[i] # "."
     THEN <<SubSeq(p, 1, dot - 1), SubSeq(p, dot, Len(p))>>
     ELSE <<p, <<>> >>

ExtXlsx == <<".","x","l","s","x">>
ExtXlsm == <<".","x","l","s","m">>
ExtXls == <<".","x","l","s">>
AcceptedExts == {ExtXlsx, ExtXlsm, ExtXls}
Marker == <<"_","a","n","o","n","y","m","i","z","e","d">>

\* the intermediate path without the anonymization marker
TempPathNoMarker(b) == b \o ExtXlsx

\* f"{base}_anonymized.xlsx"
TempPath(b) == b \o Marker \o ExtXlsx

\* f"{base}_anonymized{output_ext}"
FinalPath(b, oext) == b \o Marker \o oext

\* an extension test that compares case-sensitively
ExtAcceptedCaseSensitive(e) == e \in AcceptedExts

\* ext.lower() in [".xlsx", ".xlsm", ".xls"]
ExtAccepted(e) == Lower(e) \in AcceptedExts

\* ------------------------------------------------------------------- cells
Blank == [t |-> "blank", v |-> ""]
NaN == [t |-> "nan", v |-> ""]
Val(s) == [t |-> "val", v |-> s]

\* Series.notna for one cell
notna(c) == c # NaN

\* cell conversion done by pd.read_excel: a blank cell is read as missing
ReadCell(c) == IF c = Blank THEN NaN ELSE c

\* cell conversion done by DataFrame.to_excel: missing is written as blank
WriteCell(c) == IF c = NaN THEN Blank ELSE c

\* pd.read_excel(xls, sheet_name=sheet_name): the named sheet as a DataFrame
read_excel(wb, sheet_name) ==
  LET s == wb[CHOOSE i \in DOMAIN wb : wb[i].name = sheet_name]
  IN [columns |-> s.header,
      data |-> [r \in DOMAIN s.rows |->
                  [c \in DOMAIN s.rows[r] |-> ReadCell(s.rows[r][c])]]]

\* xls.sheet_names: the sheet names in file order
sheet_names(wb) == [i \in DOMAIN wb |-> wb[i].name]

\* x in list
InList(x, l) == \E i \in DOMAIN l : l[i] = x

\* a mask that overwrites every row, missing or not
MaskColAllRows(df, col, repl) ==
  [df EXCEPT !.data =
     [r \in DOMAIN df.data |->
        [c \in DOMAIN df.data[r] |->
           IF df.columns[c] = col THEN Val(repl) ELSE df.data[r][c]]]]

\* df.loc[df[col].notna(), col] = replacement
MaskCol(df, col, repl) ==
  [df EXCEPT !.data =
     [r \in DOMAIN df.data |->
        [c \in DOMAIN df.data[r] |->
           IF df.columns[c] = col /\ notna(df.data[r][c])
           THEN Val(repl) ELSE df.data[r][c]]]]

\* a column selection that masks the columns NOT listed
ColsToMaskInverted(df, pii) ==
  SelectSeq(df.columns, LAMBDA c : ~InList(c, pii))

\* [c for c in df.columns if c in pii_columns]
ColsToMask(df, pii) == SelectSeq(df.columns, LAMBDA c : InList(c, pii))

\* for col in cols_to_mask: ...
RECURSIVE MaskCols(_, _, _)
MaskCols(df, cols, repl) ==
  IF cols = <<>> THEN df
  ELSE MaskCols(MaskCol(df, Head(cols), repl), Tail(cols), repl)

\* updated_sheets[sheet_name] = df  (a dict keeps insertion order)
DictSet(d, k, x) ==
  IF \E i \in DOMAIN d : d[i].key = k
  THEN [i \in DOMAIN d |-> IF d[i].key = k THEN [key |-> k, df |-> x] ELSE d[i]]
  ELSE Append(d, [key |-> k, df |-> x])

\* a sheet loop that stops after the first sheet
MaskSheetsFirstOnly(wb, names, pii, repl, acc) ==
  IF names = <<>> THEN acc
  ELSE LET df == read_excel(wb, Head(names))
       IN DictSet(acc, Head(names), MaskCols(df, ColsToMask(df, pii), repl))

\* the loop over xls.sheet_names, lines 57-65
RECURSIVE MaskSheets(_, _, _, _, _)
MaskSheets(wb, names, pii, repl, acc) ==
  IF names = <<>> THEN acc
  ELSE LET df == read_excel(wb, Head(names))
           masked == MaskCols(df, ColsToMask(df, pii), repl)
       IN MaskSheets(wb, Tail(names), pii, repl, DictSet(acc, Head(names), masked))

\* df.to_excel(writer, sheet_name=sheet_name, index=False) for every dict item
to_excel(d) ==
  [i \in DOMAIN d |->
     [name |-> d[i].key,
      header |-> d[i].df.columns,
      rows |-> [r \in DOMAIN d[i].df.data |->
                  [c \in DOMAIN d[i].df.data[r] |-> WriteCell(d[i].df.data[r][c])]]]]

\* ------------------------------------------------------------ input domains
PathDXlsx == <<"d",".","x","l","s","x">>
PathDUpper == <<"d",".","X","L","S","X">>
PathDXls == <<"d",".","x","l","s">>
PathDCsv == <<"d",".","c","s","v">>
PathHidden == <<"r","/",".","x","l","s","x">>
PathMissing == <<"m",".","x","l","s","x">>
PathMissingCsv == <<"m",".","c","s","v">>

\* files present before the first run; all of them hold the raw dataset
ExistingPaths == {PathDXlsx, PathDUpper, PathDXls, PathDCsv, PathHidden}
InputPaths == ExistingPaths \cup {PathMissing, PathMissingCsv}

ExtQa317 == <<".","q","a","3","1","7">>
OutputExts == {ExtQa317, ExtXlsx, <<>>}

DefaultReplacement == "PII Field"
Replacements == {DefaultReplacement, "X"}

PiiChoices == {<<"name", "phone">>, <<>>, <<"notes", "email">>}

Headers == << <<"id", "name", "phone", "notes">>, <<"Name", "notes", "phone">> >>
CellPool == <<Val("Alice"), Blank, Val("555-1234"), Val("ok")>>
SheetNamePool == <<"Responses", "Members", "Visits", "Extra">>
Seeds == 0..(Len(CellPool) - 1)

\* the raw dataset with n sheets of m rows; the seed shifts which header a
\* sheet has and which cells are blank
Workbook(n, m, seed) ==
  [s \in 1..n |->
     LET h == Headers[((seed + s) % Len(Headers)) + 1]
     IN [name |-> SheetNamePool[((s - 1) % Len(SheetNamePool)) + 1],
         header |-> h,
         rows |-> [r \in 1..m |->
                    [c \in 1..Len(h) |->
                       CellPool[((seed + s + r + c) % Len(CellPool)) + 1]]]]]

Workbooks ==
  {Workbook(n, m, seed) : n \in 1..MaxSheets, m \in 0..MaxRows, seed \in Seeds}

\* a file left at an output path by some earlier, unrelated export
StalePaths == {TempPath(<<"d">>), FinalPath(<<"d">>, ExtQa317)}
StaleWorkbook ==
  << [name |-> "Old", header |-> <<"id">>, rows |-> << <<Val("stale")>> >>] >>

\* ------------------------------------------------------------------- state
VARIABLES
  fs,             \* the file system: path -> workbook stored there
  pc,             \* position inside mask_excel_file, "idle" between runs
  input_file, pii_columns, replacement, output_ext,     \* arguments
  base, ext, temp_output, final_output, updated_sheets, \* locals
  outcome,        \* how the last run ended: kind and returned path
  runs,           \* runs started so far
  fs0,            \* the file system when the current run was entered
  raw,            \* the raw dataset placed in the input files at the start
  prevOk,         \* the run before the current one returned normally
  rpc, ws, xlsfrm, piicol, resolved  \* schema resolver: position, worksheet,
                                     \* frame, returned list, outcome

maskVars == <<fs, pc, input_file, pii_columns, replacement, output_ext,
              base, ext, temp_output, final_output, updated_sheets,
              outcome, runs, fs0, raw, prevOk>>
resolverVars == <<rpc, ws, xlsfrm, piicol, resolved>>
vars == <<fs, pc, input_file, pii_columns, replacement, output_ext,
          base, ext, temp_output, final_output, updated_sheets,
          outcome, runs, fs0, raw, prevOk, rpc, ws, xlsfrm, piicol, resolved>>

NoPath == <<>>
Exists(f, p) == p \in DOMAIN f

\* os.remove(p)
Remove(f, p) == [q \in DOMAIN f \ {p} |-> f[q]]

\* ExcelWriter(p) ... to_excel: create or truncate p and store the workbook
WriteFile(f, p, wb) == [q \in DOMAIN f \cup {p} |-> IF q = p THEN wb ELSE f[q]]

\* os.rename(src, dst) on an existing src: dst is replaced, src disappears
Rename(f, src, dst) ==
  [q \in (DOMAIN f \ {src}) \cup {dst} |-> IF q = dst THEN f[src] ELSE f[q]]

NoOutcome == [kind |-> "none", line |-> 0, path |-> NoPath]
Raised(k, l) == [kind |-> k, line |-> l, path |-> NoPath]
Returned(p) == [kind |-> "ok", line |-> 76, path |-> p]

NoWorksheet == [found |-> FALSE, header |-> <<>>, rows |-> <<>>]
NoFrame == [columns |-> <<>>, data |-> <<>>]

Init ==
  /\ raw \in Workbooks
  /\ \E stale \in SUBSET StalePaths :
       /\ Cardinality(stale) <= 1
       /\ fs = [p \in ExistingPaths \cup stale |->
                  IF p \in ExistingPaths THEN raw ELSE StaleWorkbook]
  /\ pc = "idle"
  /\ input_file = NoPath /\ pii_columns = <<>>
  /\ replacement = DefaultReplacement /\ output_ext = ExtQa317
  /\ base = NoPath /\ ext = NoPath
  /\ temp_output = NoPath /\ final_output = NoPath
  /\ updated_sheets = <<>>
  /\ outcome = NoOutcome
  /\ runs = 0
  /\ fs0 = fs
  /\ prevOk = FALSE
  /\ rpc = "idle"
  /\ ws = NoWorksheet /\ xlsfrm = NoFrame /\ piicol = <<>>
  /\ resolved = NoOutcome

\* ---------------------------------------------------------- mask_excel_file
\* entry, lines 33-38: the first run fixes the dataset path, the replacement
\* token and the output extension; later runs repeat them, while the PII
\* column list is fetched anew for every run
MaskEnter ==
  /\ pc = "idle" /\ runs < MaxRuns
  /\ IF runs = 0
     THEN /\ input_file' \in InputPaths
          /\ replacement' \in Replacements
          /\ output_ext' \in OutputExts
     ELSE UNCHANGED <<input_file, replacement, output_ext>>
  /\ pii_columns' \in PiiChoices
  /\ pc' = "check"
  /\ runs' = runs + 1
  /\ fs0' = fs
  /\ prevOk' = (outcome.kind = "ok")
  /\ outcome' = NoOutcome
  /\ base' = NoPath /\ ext' = NoPath
  /\ temp_output' = NoPath /\ final_output' = NoPath
  /\ updated_sheets' = <<>>
  /\ UNCHANGED <<fs, raw, resolverVars>>

\* lines 44-45
RaiseNotFound ==
  /\ pc = "check"
  /\ ~Exists(fs, input_file)
  /\ outcome' = Raised("FileNotFoundError", 45)
  /\ pc' = "idle"
  /\ UNCHANGED <<fs, input_file, pii_columns, replacement, output_ext, base, ext,
                 temp_output, final_output, updated_sheets, runs, fs0, raw,
                 prevOk, resolverVars>>

\* the extension check made without the existence check before it
RaiseUnsupportedBeforeExists ==
  /\ pc = "check"
  /\ ~ExtAccepted(splitext(input_file)[2])
  /\ base' = splitext(input_file)[1]
  /\ ext' = splitext(input_file)[2]
  /\ outcome' = Raised("ValueError", 49)
  /\ pc' = "idle"
  /\ UNCHANGED <<fs, input_file, pii_columns, replacement, output_ext,
                 temp_output, final_output, updated_sheets, runs, fs0, raw,
                 prevOk, resolverVars>>

\* lines 47-49
RaiseUnsupported ==
  /\ pc = "check"
  /\ Exists(fs, input_file)
  /\ ~ExtAccepted(splitext(input_file)[2])
  /\ base' = splitext(input_file)[1]
  /\ ext' = splitext(input_file)[2]
  /\ outcome' = Raised("ValueError", 49)
  /\ pc' = "idle"
  /\ UNCHANGED <<fs, input_file, pii_columns, replacement, output_ext,
                 temp_output, final_output, updated_sheets, runs, fs0, raw,
                 prevOk, resolverVars>>

\* lines 44-52 when both checks pass
DerivePaths ==
  /\ pc = "check"
  /\ Exists(fs, input_file)
  /\ ExtAccepted(splitext(input_file)[2])
  /\ base' = splitext(input_file)[1]
  /\ ext' = splitext(input_file)[2]
  /\ temp_output' = TempPath(splitext(input_file)[1])
  /\ final_output' = FinalPath(splitext(input_file)[1], output_ext)
  /\ pc' = "read"
  /\ UNCHANGED <<fs, input_file, pii_columns, replacement, output_ext,
                 updated_sheets, outcome, runs, fs0, raw, prevOk,
                 resolverVars>>

\* lines 54-65
ReadAndMask ==
  /\ pc = "read"
  /\ updated_sheets' = MaskSheets(fs[input_file], sheet_names(fs[input_file]),
                                  pii_columns, replacement, <<>>)
  /\ pc' = "write"
  /\ UNCHANGED <<fs, input_file, pii_columns, replacement, output_ext, base, ext,
                 temp_output, final_output, outcome, runs, fs0, raw, prevOk,
                 resolverVars>>

\* lines 67-69
WriteTemp ==
  /\ pc = "write"
  /\ fs' = WriteFile(fs, temp_output, to_excel(updated_sheets))
  /\ pc' = "replace"
  /\ UNCHANGED <<input_file, pii_columns, replacement, output_ext, base, ext,
                 temp_output, final_output, updated_sheets, outcome, runs, fs0,
                 raw, prevOk, resolverVars>>

\* an existing output is kept and the new intermediate file is dropped
RemoveExistingKeepsOld ==
  /\ pc = "replace"
  /\ IF Exists(fs, final_output) /\ final_output # temp_output
     THEN fs' = Remove(fs, temp_output) /\ pc' = "return"
     ELSE fs' = fs /\ pc' = "rename"
  /\ UNCHANGED <<input_file, pii_columns, replacement, output_ext, base, ext,
                 temp_output, final_output, updated_sheets, outcome, runs, fs0,
                 raw, prevOk, resolverVars>>

\* lines 72-73
RemoveExisting ==
  /\ pc = "replace"
  /\ fs' = IF Exists(fs, final_output) THEN Remove(fs, final_output) ELSE fs
  /\ pc' = "rename"
  /\ UNCHANGED <<input_file, pii_columns, replacement, output_ext, base, ext,
                 temp_output, final_output, updated_sheets, outcome, runs, fs0,
                 raw, prevOk, resolverVars>>

\* line 74 when the source of the rename is gone: os.rename raises
RenameFails ==
  /\ pc = "rename"
  /\ ~Exists(fs, temp_output)
  /\ outcome' = Raised("FileNotFoundError", 74)
  /\ pc' = "idle"
  /\ UNCHANGED <<fs, input_file, pii_columns, replacement, output_ext, base, ext,
                 temp_output, final_output, updated_sheets, runs, fs0, raw,
                 prevOk, resolverVars>>

\* line 74
RenameTemp ==
  /\ pc = "rename"
  /\ Exists(fs, temp_output)
  /\ fs' = Rename(fs, temp_output, final_output)
  /\ pc' = "return"
  /\ UNCHANGED <<input_file, pii_columns, replacement, output_ext, base, ext,
                 temp_output, final_output, updated_sheets, outcome, runs, fs0,
                 raw, prevOk, resolverVars>>

\* line 76
Return ==
  /\ pc = "return"
  /\ outcome' = Returned(final_output)
  /\ pc' = "idle"
  /\ UNCHANGED <<fs, input_file, pii_columns, replacement, output_ext, base, ext,
                 temp_output, final_output, updated_sheets, runs, fs0, raw,
                 prevOk, resolverVars>>

Next ==
  \/ MaskEnter
  \/ RaiseNotFound
  \/ RaiseUnsupported
  \/ DerivePaths
  \/ ReadAndMask
  \/ WriteTemp
  \/ RemoveExisting
  \/ RenameFails
  \/ RenameTemp
  \/ Return

Spec == Init /\ [][Next]_vars

\* ------------------------------------------- get_pii_columns_from_xlsform
\* a value of a worksheet record: gspread yields texts and numbers
Str(chars) == [t |-> "str", s |-> chars, n |-> 0]
Num(k) == [t |-> "int", s |-> <<>>, n |-> k]

Digits == <<"0","1","2","3","4","5","6","7","8","9">>

\* str(k) for a natural number
RECURSIVE NatToStr(_)
NatToStr(k) ==
  IF k < 10 THEN <<Digits[k + 1]>>
  ELSE NatToStr(k \div 10) \o <<Digits[(k % 10) + 1]>>

\* Series.astype(str) for one value
AsStr(x) == IF x.t = "int" THEN NatToStr(x.n) ELSE x.s

KeyDataset == <<"d","a","t","a","s","e","t">>
KeyName == <<"n","a","m","e">>
Pii == <<"p","i","i">>

\* pd.DataFrame(ws.get_all_records()): one record per data row, keyed by the
\* header; a frame built from no records has no columns
DataFrame(sheet) ==
  IF sheet.rows = <<>> THEN NoFrame
  ELSE [columns |-> sheet.header, data |-> sheet.rows]

\* a membership test against the header as spelled, without lower-casing
HasColExact(columns, key) == \E i \in DOMAIN columns : columns[i] = key

\* "key in cols_lower", cols_lower = {c.lower(): c for c in xlsfrm.columns}
HasCol(columns, key) == \E i \in DOMAIN columns : Lower(columns[i]) = key

\* position of cols_lower[key]: the last column whose lower-cased name is key
ColIndex(columns, key) ==
  CHOOSE i \in DOMAIN columns :
    /\ Lower(columns[i]) = key
    /\ \A j \in DOMAIN columns : Lower(columns[j]) = key => j <= i

\* a row test that compares the tag without lower-casing it
IsPiiRowCaseSensitive(row, dcol) == AsStr(row[dcol]) = Pii

\* xlsfrm[dataset_col].astype(str).str.lower() == "pii", for one row
IsPiiRow(row, dcol) == Lower(AsStr(row[dcol])) = Pii

\* xlsfrm[mask][name_col].tolist(), line 29
RECURSIVE SelectNames(_, _, _)
SelectNames(data, dcol, ncol) ==
  IF data = <<>> THEN <<>>
  ELSE (IF IsPiiRow(Head(data), dcol) THEN <<Head(data)[ncol]>> ELSE <<>>)
       \o SelectNames(Tail(data), dcol, ncol)

SchemaHeaders ==
  { << <<"t","y","p","e">>, KeyName, KeyDataset >>,
    << <<"D","a","t","a","s","e","t">>, <<"N","A","M","E">> >>,
    << KeyName, <<"l","a","b","e","l">> >>,
    << KeyDataset, <<"t","y","p","e">> >>,
    << <<"d","a","t","a","s","e","t","s">>, KeyName >>,
    << >> }

TagPool == << Str(Pii), Str(<<"P","I","I">>), Str(<<>>), Str(<<"P","i","i">>),
              Str(<<"o","t","h","e","r">>), Num(7), Str(<<" ","p","i","i">>) >>
NamePool == << Str(<<"n","a","m","e">>), Str(<<"p","h","o","n","e">>),
               Str(<<"n","a","m","e">>), Num(12), Str(<<"n","o","t","e","s">>) >>
TagSeeds == 0..(Len(TagPool) - 1)

\* the survey worksheet with header h and n data rows
Worksheet(h, n, seed) ==
  [found |-> TRUE,
   header |-> h,
   rows |-> [i \in 1..n |->
              [c \in 1..Len(h) |->
                 IF Lower(h[c]) = KeyDataset
                 THEN TagPool[((seed + i) % Len(TagPool)) + 1]
                 ELSE IF Lower(h[c]) = KeyName
                 THEN NamePool[((seed + 2 * i) % Len(NamePool)) + 1]
                 ELSE Str(<<"x">>)]]]

Worksheets ==
  {Worksheet(h, n, seed) : h \in SchemaHeaders, n \in 0..MaxRecords, seed \in TagSeeds}

\* lines 8-12: open the spreadsheet and look the worksheet up
OpenWorksheet ==
  /\ rpc = "idle"
  /\ ws' \in Worksheets \cup {NoWorksheet}
  /\ rpc' = "opened"
  /\ xlsfrm' = NoFrame /\ piicol' = <<>> /\ resolved' = NoOutcome
  /\ UNCHANGED maskVars

\* lines 13-14
RaiseWorksheetNotFound ==
  /\ rpc = "opened"
  /\ ~ws.found
  /\ resolved' = Raised("ValueError", 14)
  /\ rpc' = "idle"
  /\ UNCHANGED <<ws, xlsfrm, piicol>>
  /\ UNCHANGED maskVars

\* line 16
FetchRecords ==
  /\ rpc = "opened"
  /\ ws.found
  /\ xlsfrm' = DataFrame(ws)
  /\ rpc' = "validate"
  /\ UNCHANGED <<ws, piicol, resolved>>
  /\ UNCHANGED maskVars

\* lines 19-24
RaiseSchema ==
  /\ rpc = "validate"
  /\ ~(HasCol(xlsfrm.columns, KeyDataset) /\ HasCol(xlsfrm.columns, KeyName))
  /\ resolved' = Raised("ValueError", 24)
  /\ rpc' = "idle"
  /\ UNCHANGED <<ws, xlsfrm, piicol>>
  /\ UNCHANGED maskVars

\* lines 19-30 when both columns are present
SelectPii ==
  /\ rpc = "validate"
  /\ HasCol(xlsfrm.columns, KeyDataset) /\ HasCol(xlsfrm.columns, KeyName)
  /\ piicol' = SelectNames(xlsfrm.data, ColIndex(xlsfrm.columns, KeyDataset),
                           ColIndex(xlsfrm.columns, KeyName))
  /\ resolved' = [kind |-> "ok", line |-> 30, path |-> NoPath]
  /\ rpc' = "idle"
  /\ UNCHANGED <<ws, xlsfrm>>
  /\ UNCHANGED maskVars

NextResolver ==
  \/ OpenWorksheet
  \/ RaiseWorksheetNotFound
  \/ FetchRecords
  \/ RaiseSchema
  \/ SelectPii

SpecResolver == Init /\ [][NextResolver]_vars

\* ------------------------------------------------------------- properties
\* a run of the masker has ended (normally or by raising)
RunEnded == pc = "idle" /\ runs >= 1
RunReturned == RunEnded /\ outcome.kind = "ok"

\* the workbook the run read and the workbook at the returned path
InputWorkbook == fs0[input_file]
OutputWorkbook == fs[outcome.path]

\* the output has a cell wherever the input has one
SameShape(in, out) ==
  /\ DOMAIN out = DOMAIN in
  /\ \A i \in DOMAIN in :
       /\ DOMAIN out[i].rows = DOMAIN in[i].rows
       /\ \A r \in DOMAIN in[i].rows : DOMAIN out[i].rows[r] = DOMAIN in[i].rows[r]

\* C1: after a successful run, in every sheet, every cell of a column named in
\* pii_columns equals the replacement token if the input cell was not empty
\* and is still empty if the input cell was empty.
C1_PiiColumnsMasked ==
  RunReturned =>
    /\ Exists(fs, outcome.path)
    /\ SameShape(InputWorkbook, OutputWorkbook)
    /\ \A i \in DOMAIN InputWorkbook :
         \A c \in DOMAIN InputWorkbook[i].header :
           InList(InputWorkbook[i].header[c], pii_columns) =>
             \A r \in DOMAIN InputWorkbook[i].rows :
               OutputWorkbook[i].rows[r][c] =
                 IF InputWorkbook[i].rows[r][c] = Blank THEN Blank
                 ELSE Val(replacement)

\* a successful run over a PII column holding both a value and an empty cell
C1_Witness ==
  /\ RunReturned
  /\ \E i \in DOMAIN InputWorkbook : \E c \in DOMAIN InputWorkbook[i].header :
       /\ InList(InputWorkbook[i].header[c], pii_columns)
       /\ \E r \in DOMAIN InputWorkbook[i].rows : InputWorkbook[i].rows[r][c] = Blank
       /\ \E r \in DOMAIN InputWorkbook[i].rows :
            /\ InputWorkbook[i].rows[r][c] # Blank
            /\ InputWorkbook[i].rows[r][c] # Val(replacement)

C4_StructurePreserved ==
  RunReturned =>
    /\ Exists(fs, outcome.path)
    /\ Len(OutputWorkbook) = Len(InputWorkbook)
    /\ \A i \in DOMAIN InputWorkbook :
         /\ i \in DOMAIN OutputWorkbook
         /\ OutputWorkbook[i].name = InputWorkbook[i].name
         /\ OutputWorkbook[i].header = InputWorkbook[i].header
         /\ Len(OutputWorkbook[i].rows) = Len(InputWorkbook[i].rows)

\* a successful run over a workbook of several sheets with different headers
C4_Witness ==
  /\ RunReturned
  /\ Len(InputWorkbook) >= 2
  /\ InputWorkbook[1].header # InputWorkbook[2].header
  /\ Len(InputWorkbook[1].rows) >= 1
  /\ pii_columns # <<>>

\* C5: when a run on the same input follows a run that returned normally (so
\* its output file is already there), the later run returns normally too and
\* the output path then holds exactly the workbook the later run wrote.
C5_SecondRunOverwrites ==
  (RunEnded /\ runs >= 2 /\ prevOk) =>
    /\ outcome = Returned(FinalPath(base, output_ext))
    /\ Exists(fs0, outcome.path)
    /\ Exists(fs, outcome.path)
    /\ fs[outcome.path] = to_excel(updated_sheets)

\* a second run whose output differs from the file the first run had left
C5_Witness ==
  /\ RunReturned /\ runs >= 2 /\ prevOk
  /\ Exists(fs0, outcome.path)
  /\ fs[outcome.path] # fs0[outcome.path]

\* C6: for every existing input with an accepted extension and every output
\* extension, the run returns <base>_anonymized<output_ext> and a file with
\* the masked workbook is at that path.
C6_AlwaysDelivers ==
  (RunEnded /\ Exists(fs0, input_file)
     /\ Lower(splitext(input_file)[2]) \in AcceptedExts) =>
    /\ outcome = Returned(splitext(input_file)[1] \o Marker \o output_ext)
    /\ Exists(fs, outcome.path)
    /\ fs[outcome.path] = to_excel(updated_sheets)

\* C7: a run on an existing file whose extension is not .xlsx, .xlsm or .xls
\* in any casing raises ValueError and leaves the file system as it was; an
\* existing file with such an extension in another casing is not rejected.
C7_UnsupportedRejectedEarly ==
  (RunEnded /\ Exists(fs0, input_file)) =>
    IF Lower(splitext(input_file)[2]) \in AcceptedExts
    THEN outcome.kind # "ValueError"
    ELSE outcome = Raised("ValueError", 49) /\ fs = fs0

\* a run on the existing .csv file has raised ValueError
C7_Witness ==
  /\ RunEnded /\ input_file = PathDCsv
  /\ outcome = Raised("ValueError", 49)

\* C8: a run on a nonexistent input path raises FileNotFoundError at the
\* existence check, whatever the extension, and leaves the file system as it
\* was.
C8_MissingInputRejected ==
  (RunEnded /\ ~Exists(fs0, input_file)) =>
    outcome = Raised("FileNotFoundError", 45) /\ fs = fs0

\* a run on the nonexistent .csv path has raised FileNotFoundError
C8_Witness ==
  /\ RunEnded /\ input_file = PathMissingCsv
  /\ outcome = Raised("FileNotFoundError", 45)

\* C10: from the entry of a run on an existing input to its end, the input
\* file exists and holds the raw dataset, and neither the intermediate path
\* nor the final output path is the input path.
C10_InputNeverMutated ==
  (runs >= 1 /\ Exists(fs0, input_file)) =>
    /\ Exists(fs, input_file)
    /\ fs[input_file] = raw
    /\ pc \in {"read", "write", "replace", "rename", "return"} =>
         temp_output # input_file /\ final_output # input_file

\* the run has written its intermediate file and removed an older output
C10_Witness ==
  /\ pc = "rename"
  /\ Exists(fs, temp_output)
  /\ Exists(fs0, final_output)
  /\ ~Exists(fs, final_output)
  /\ pii_columns # <<>>

\* every spelling of "pii" that differs from it only in letter case
PiiSpellings ==
  {<<a, b, c>> : a \in {"p", "P"}, b \in {"i", "I"}, c \in {"i", "I"}}

\* a resolver call has ended (normally or by raising) on a worksheet it found
ResolveEnded == rpc = "idle" /\ resolved.kind # "none" /\ ws.found
ResolveReturned == ResolveEnded /\ resolved.kind = "ok"

\* positions of the header columns spelled like key, letter case aside
ColumnsNamed(key) == {c \in DOMAIN ws.header : Lower(ws.header[c]) = key}

\* the records whose dataset tag is a spelling of "pii"
PiiRecords ==
  {i \in DOMAIN ws.rows :
     \E d \in ColumnsNamed(KeyDataset) : AsStr(ws.rows[i][d]) \in PiiSpellings}

\* C3: the returned list holds the name of every record whose dataset tag,
\* as a string and letter case aside, is "pii", and holds no other name.
C3_ExactlyPiiNames ==
  ResolveReturned =>
    /\ \A i \in PiiRecords :
         \E n \in ColumnsNamed(KeyName) : InList(ws.rows[i][n], piicol)
    /\ \A k \in DOMAIN piicol :
         \E i \in PiiRecords : \E n \in ColumnsNamed(KeyName) :
           piicol[k] = ws.rows[i][n]

\* a call returned names for tags spelled "PII" and "Pii" and left out a
\* record tagged otherwise
C3_Witness ==
  /\ ResolveReturned
  /\ \E i, j \in PiiRecords : \E d \in ColumnsNamed(KeyDataset) :
       /\ AsStr(ws.rows[i][d]) = <<"P","I","I">>
       /\ AsStr(ws.rows[j][d]) = <<"P","i","i">>
  /\ PiiRecords # DOMAIN ws.rows
  /\ Len(piicol) >= 2

\* C9: on a worksheet it found, the resolver raises ValueError exactly when
\* the worksheet has no records or its header has, letter case aside, no
\* dataset column or no name column; otherwise it returns, and every
\* returned name is taken from the name column.
C9_SchemaErrorExactly ==
  ResolveEnded =>
    IF \/ ws.rows = <<>>
       \/ ColumnsNamed(KeyDataset) = {}
       \/ ColumnsNamed(KeyName) = {}
    THEN resolved = Raised("ValueError", 24)
    ELSE /\ resolved.kind = "ok"
         /\ \A k \in DOMAIN piicol :
              \E i \in DOMAIN ws.rows : \E n \in ColumnsNamed(KeyName) :
                piicol[k] = ws.rows[i][n]

\* a call on a header spelled Dataset / NAME has returned a name
C9_Witness ==
  /\ ResolveReturned
  /\ ws.header = << <<"D","a","t","a","s","e","t">>, <<"N","A","M","E">> >>
  /\ piicol # <<>>

====
